---- MODULE Spec2Model ----
(***************************************************************************)
(* Model of app.py, the Streamlit "Binary Classification Web App".         *)
(*                                                                         *)
(* Streamlit runs main() from top to bottom once per user interaction (a   *)
(* "rerun").  The state is: the dataset file on disk, the two st.cache     *)
(* memo tables (load_data, split), the widget values kept by the session,  *)
(* and, during a rerun, the position in main(), its local variables and    *)
(* the elements written to the page so far.                                *)
(*                                                                         *)
(* Categorical cell values of mushrooms.csv are single letters; a letter   *)
(* is represented by its character code so that LabelEncoder's sorting can *)
(* be computed.  Numbers entered as C are in hundredths (0.01 is 1).       *)
(***************************************************************************)
EXTENDS Integers, Sequences, FiniteSets

VARIABLES
    file,        \* mushrooms.csv on disk: column name -> sequence of letters
    seed0perm,   \* the row permutation numpy's RandomState(0) yields for this file
    loadCache,   \* st.cache memo of load_data(): None or the encoded table
    splitCache,  \* st.cache memo of split(df): None or the partition
    nRead,       \* completed executions of load_data's body (file read and encoded)
    nSplit,      \* completed executions of split's body
    classifier,  \* value of the "Classifier" selectbox
    hyper,       \* values of the hyperparameter widgets of the selected family
    metrics,     \* value of the multiselect, in selection order
    showRaw,     \* value of the "Show raw data" checkbox
    pressed,     \* TRUE in the rerun triggered by clicking "Classify"
    pc,          \* position in main(); "idle" between reruns
    branch,      \* the classifier branch of main() being executed
    df,          \* main's local df
    parts,       \* main's locals x_train, x_test, y_train, y_test
    model,       \* main's local model
    accuracy,    \* main's local accuracy, in hundredths
    y_pred,      \* main's local y_pred
    labelsArg,   \* the labels= argument of the last precision/recall call
    plotIdx,     \* plots of plot_metrics already passed in this rerun
    display,     \* elements written to the page in this rerun, in order
    log,         \* library calls made in this rerun, in order
    error,       \* exception that ended this rerun, "None" if none
    errorAt,     \* the step that raised it
    keys,        \* times the widget key 'classify' was registered in this rerun
    rendered,    \* widgets rendered in this rerun
    calls,       \* SplitSpec: number of split(df) calls made
    prevParts    \* SplitSpec: result of the previous split(df) call

disk == <<file, seed0perm>>
caches == <<loadCache, splitCache, nRead, nSplit>>
widgets == <<classifier, hyper, metrics, showRaw>>
locals == <<df, parts, model, accuracy, y_pred>>
page == <<display, rendered, keys>>
pure == <<calls, prevParts>>

vars == <<disk, caches, widgets, pressed, pc, branch, locals, labelsArg,
          plotIdx, page, log, error, errorAt, pure>>

----------------------------------------------------------------------------
(* Bounds of the model *)

MaxRows == 4
MaxCalls == 3

----------------------------------------------------------------------------
(* Python values *)

None == [None |-> TRUE]
PyStr(s) == [str |-> s]
PyInt(i) == [int |-> i]

\* Python truth value: a str is true unless empty, an int unless 0.
Truthy(v) ==
    IF "bool" \in DOMAIN v THEN v.bool
    ELSE IF "str" \in DOMAIN v THEN v.str # ""
    ELSE IF "int" \in DOMAIN v THEN v.int # 0
    ELSE FALSE

Range(s) == {s[i] : i \in DOMAIN s}

Permutations(n) ==
    {p \in [1..n -> 1..n] : \A i, j \in 1..n : p[i] = p[j] => i = j}

----------------------------------------------------------------------------
(* Dataset Loader: load_data *)

\* Letters of the "type" column (e, p) and of a feature column (a, n).
TypeLetters == {101, 112}
OdorLetters == {97, 110}

\* LabelEncoder().fit_transform(col): classes_ are the sorted distinct values
\* and each value becomes its position in classes_.
fit_transform(col) ==
    LET classes == Range(col)
    IN  [i \in DOMAIN col |-> Cardinality({c \in classes : c < col[i]})]

\* Body of load_data: read the file, encode every column, return the table.
load_data(csv) ==
    [col \in DOMAIN csv |-> fit_transform(csv[col])]

----------------------------------------------------------------------------
(* Splitter: split *)

TestPercent == 30

\* sklearn's n_test = ceil(test_size * n_samples) for test_size = 0.3.
n_test(n) == (TestPercent * n + 99) \div 100

\* The shuffle without random_state: any permutation, anew on every call.
ShuffleChoicesUnseeded(n) == Permutations(n)

\* The permutations the shuffle can draw: random_state=0 fixes the generator,
\* so there is one, the same on every call.
ShuffleChoices(n) == {seed0perm}

Take(idx, values) == [k \in DOMAIN idx |-> values[idx[k]]]

Frame(idx, x) == [index |-> idx, columns |-> [c \in DOMAIN x |-> Take(idx, x[c])]]
Series(idx, y) == [index |-> idx, values |-> Take(idx, y)]

NRows(table) == IF DOMAIN table = {} THEN 0 ELSE Len(table[CHOOSE c \in DOMAIN table : TRUE])

\* train_test_split(x, y, test_size=0.3, random_state=0): raises ValueError
\* when the training set would be empty; otherwise the first n_test rows of
\* the shuffled order are the test set and the rest the training set.
train_test_split(x, y, perm) ==
    LET n == Len(y)
        nt == n_test(n)
        test == SubSeq(perm, 1, nt)
        train == SubSeq(perm, nt + 1, n)
    IN  IF n - nt = 0 THEN [ok |-> FALSE, error |-> "ValueError"]
        ELSE [ok |-> TRUE,
              x_train |-> Frame(train, x), x_test |-> Frame(test, x),
              y_train |-> Series(train, y), y_test |-> Series(test, y)]

\* split with an optional label (df.get('type')): no schema failure.
split_label_optional(table, perm) ==
    LET y == IF "type" \in DOMAIN table THEN table.type
             ELSE [i \in 1..NRows(table) |-> 0]
        x == [c \in DOMAIN table \ {"type"} |-> table[c]]
    IN  train_test_split(x, y, perm)

\* Body of split: y = df.type raises AttributeError when df has no "type"
\* column; x is df without that column.
split(table, perm) ==
    IF "type" \notin DOMAIN table THEN [ok |-> FALSE, error |-> "AttributeError"]
    ELSE LET y == table.type
             x == [c \in DOMAIN table \ {"type"} |-> table[c]]
         IN  train_test_split(x, y, perm)

----------------------------------------------------------------------------
(* The pure functions load_data and split applied to bounded tables *)

RawTables ==
    UNION {[type : [1..n -> TypeLetters], odor : [1..n -> OdorLetters]] : n \in 0..MaxRows}

\* No rerun of main() takes place.
AppNotStarted ==
    /\ classifier = "SVM" /\ hyper = None /\ metrics = <<>> /\ showRaw = FALSE
    /\ pressed = FALSE /\ branch = "None" /\ model = None /\ y_pred = <<>>
    /\ accuracy = 0 /\ labelsArg = {} /\ plotIdx = 0 /\ display = <<>> /\ log = <<>>
    /\ error = "None" /\ errorAt = "None" /\ keys = 0 /\ rendered = {}
    /\ loadCache = None /\ splitCache = None /\ nRead = 0 /\ nSplit = 0

SplitInit ==
    /\ file \in RawTables
    /\ seed0perm \in Permutations(NRows(file))
    /\ pc = "pure_load"
    /\ df = None /\ parts = None /\ prevParts = None /\ calls = 0
    /\ AppNotStarted

\* df = load_data()
PureLoad ==
    /\ pc = "pure_load"
    /\ df' = load_data(file)
    /\ pc' = "pure_split"
    /\ UNCHANGED <<disk, caches, widgets, pressed, branch, parts, model,
                   accuracy, y_pred, labelsArg, plotIdx, page, log, error,
                   errorAt, pure>>

\* split(df), called again and again on the same table
PureSplit ==
    /\ pc = "pure_split"
    /\ calls < MaxCalls
    /\ \E perm \in ShuffleChoices(NRows(df)) :
          parts' = split(df, perm)
    /\ prevParts' = parts
    /\ calls' = calls + 1
    /\ UNCHANGED <<disk, caches, widgets, pressed, pc, branch, df, model,
                   accuracy, y_pred, labelsArg, plotIdx, page, log, error,
                   errorAt>>

SplitNext == PureLoad \/ PureSplit

SplitSpec == SplitInit /\ [][SplitNext]_vars

----------------------------------------------------------------------------
(* The widgets of main() *)

Families == {"SVM", "LR", "RF"}
PlotNames == {"Confusion Matrix", "ROC Curve", "Precision-Recall Curve"}

\* Ends of the ranges the number inputs and the slider allow.
C_min == 1
C_max == 1000
max_iter_min == 100
max_iter_max == 500
n_estimators_min == 100
n_estimators_max == 5000
max_depth_min == 1
max_depth_max == 20

\* The values a user can give each hyperparameter widget (the ends of a range
\* stand for the range).
WidgetOptions(family) ==
    IF family = "SVM" THEN
        [C : {C_min, C_max}, kernel : {"rbf", "linear"}, gamma : {"scale", "auto"}]
    ELSE IF family = "LR" THEN
        [C : {C_min, C_max}, max_iter : {max_iter_min, max_iter_max}]
    ELSE
        [n_estimators : {n_estimators_min, n_estimators_max},
         max_depth : {max_depth_min, max_depth_max},
         bootstrap : {"True", "False"}]

\* What each widget returns before the user touches it: the minimum of a
\* number input or slider, the first option of a radio.
WidgetDefaults(family) ==
    IF family = "SVM" THEN [C |-> C_min, kernel |-> "rbf", gamma |-> "scale"]
    ELSE IF family = "LR" THEN [C |-> C_min, max_iter |-> max_iter_min]
    ELSE [n_estimators |-> n_estimators_min, max_depth |-> max_depth_min,
          bootstrap |-> "True"]

\* The values the widgets of a family's branch return in this rerun.
WidgetValues(family) ==
    IF classifier = family THEN hyper ELSE WidgetDefaults(family)

\* An element written to the page.
El(kind, label) == [kind |-> kind, label |-> label]
Metric(label, value) == [kind |-> "write", label |-> label, value |-> value]

\* Elements written by the title lines.
PageTop ==
    <<El("title", "Binary Classification Web App"),
      El("markdown", "Are your mushrooms edible or poisonous?")>>

----------------------------------------------------------------------------
(* st.cache *)

\* The lookup of a function that is not memoized.
cache_never_hit(cache, key) == FALSE

\* A memoized call finds its result when the cache holds one for its arguments.
cache_hit(cache, key) == cache # None /\ cache.key = key

----------------------------------------------------------------------------
(* The files the app is run on *)

\* A mushrooms.csv, and the same file without its "type" column.
Mushrooms == [type |-> <<112, 101, 101>>, odor |-> <<110, 97, 110>>]
MushroomsNoType == [odor |-> <<110, 97, 110>>]
AppFiles == {Mushrooms, MushroomsNoType}

----------------------------------------------------------------------------
(* A rerun of main(): start *)

Init ==
    /\ file \in AppFiles
    /\ seed0perm \in Permutations(NRows(file))
    /\ loadCache = None /\ splitCache = None /\ nRead = 0 /\ nSplit = 0
    /\ classifier = "SVM" /\ hyper = WidgetDefaults("SVM")
    /\ metrics = <<>> /\ showRaw = FALSE /\ pressed = FALSE
    /\ pc = "load" /\ branch = "None"
    /\ df = None /\ parts = None /\ model = None /\ y_pred = <<>>
    /\ accuracy = 0 /\ labelsArg = {} /\ plotIdx = 0
    /\ display = PageTop /\ log = <<>>
    /\ error = "None" /\ errorAt = "None" /\ keys = 0 /\ rendered = {}
    /\ calls = 0 /\ prevParts = None

\* The script starts over: fresh locals, an empty page, then the titles.
StartRun(click) ==
    /\ pc = "idle"
    /\ pressed' = click
    /\ pc' = "load"
    /\ branch' = "None"
    /\ df' = None /\ parts' = None /\ model' = None /\ y_pred' = <<>>
    /\ accuracy' = 0 /\ labelsArg' = {} /\ plotIdx' = 0
    /\ display' = PageTop /\ log' = <<>>
    /\ error' = "None" /\ errorAt' = "None" /\ keys' = 0 /\ rendered' = {}
    /\ UNCHANGED <<disk, caches, pure>>

\* The user picks another classifier; the hyperparameter widgets of the new
\* family are created anew and return their defaults.
ChooseClassifier ==
    /\ "Classifier" \in rendered
    /\ \E c \in Families \ {classifier} :
          /\ classifier' = c
          /\ hyper' = WidgetDefaults(c)
    /\ StartRun(FALSE)
    /\ UNCHANGED <<metrics, showRaw>>

\* The user changes one hyperparameter widget.
ChangeHyperparameter ==
    /\ "hyperparameters" \in rendered
    /\ \E h \in WidgetOptions(classifier) :
          /\ Cardinality({k \in DOMAIN h : h[k] # hyper[k]}) = 1
          /\ hyper' = h
    /\ StartRun(FALSE)
    /\ UNCHANGED <<classifier, metrics, showRaw>>

\* The user adds an option to the multiselect (it goes last) or removes one.
ChangeMetrics ==
    /\ "metrics" \in rendered
    /\ \/ \E m \in PlotNames \ Range(metrics) : metrics' = Append(metrics, m)
       \/ \E m \in Range(metrics) : metrics' = SelectSeq(metrics, LAMBDA e : e # m)
    /\ StartRun(FALSE)
    /\ UNCHANGED <<classifier, hyper, showRaw>>

ToggleShowRaw ==
    /\ "Show raw data" \in rendered
    /\ showRaw' = ~showRaw
    /\ StartRun(FALSE)
    /\ UNCHANGED <<classifier, hyper, metrics>>

PressClassify ==
    /\ "classify" \in rendered
    /\ StartRun(TRUE)
    /\ UNCHANGED <<classifier, hyper, metrics, showRaw>>

\* A rerun without any widget change (the user asks for a rerun).
Rerun ==
    /\ StartRun(FALSE)
    /\ UNCHANGED <<classifier, hyper, metrics, showRaw>>

----------------------------------------------------------------------------
(* A rerun of main(): load and split *)

\* A handler that replaces the page by the exception.
on_exception_clear(shown) == <<El("exception", "")>>

\* An exception leaves main(): Streamlit keeps what the rerun has written so
\* far and shows the exception below it.
on_exception(shown) == Append(shown, El("exception", ""))

\* df = load_data()
LoadData ==
    /\ pc = "load"
    /\ IF cache_hit(loadCache, <<>>)
       THEN /\ df' = loadCache.value
            /\ UNCHANGED <<loadCache, nRead>>
       ELSE /\ df' = load_data(file)
            /\ loadCache' = [key |-> <<>>, value |-> load_data(file)]
            /\ nRead' = nRead + 1
    /\ pc' = "split"
    /\ UNCHANGED <<disk, splitCache, nSplit, widgets, pressed, branch, parts,
                   model, accuracy, y_pred, labelsArg, plotIdx, page, log,
                   error, errorAt, pure>>

\* x_train, x_test, y_train, y_test = split(df)
Split ==
    /\ pc = "split"
    /\ IF cache_hit(splitCache, df)
       THEN /\ parts' = splitCache.value
            /\ pc' = "select"
            /\ UNCHANGED <<splitCache, nSplit, display, error, errorAt>>
       ELSE \E perm \in ShuffleChoices(NRows(df)) :
              LET r == split(df, perm)
              IN  IF r.ok
                  THEN /\ parts' = r
                       /\ splitCache' = [key |-> df, value |-> r]
                       /\ nSplit' = nSplit + 1
                       /\ pc' = "select"
                       /\ UNCHANGED <<display, error, errorAt>>
                  ELSE /\ error' = r.error
                       /\ errorAt' = "split"
                       /\ display' = on_exception(display)
                       /\ pc' = "idle"
                       /\ UNCHANGED <<parts, splitCache, nSplit>>
    /\ UNCHANGED <<disk, loadCache, nRead, widgets, pressed, branch, df, model,
                   accuracy, y_pred, labelsArg, plotIdx, rendered, keys, log,
                   pure>>

----------------------------------------------------------------------------
(* A rerun of main(): the classifier branches *)

class_names == <<"edible", "poisonous">>

\* classifier = st.sidebar.selectbox("Classifier", ...)
SelectBox ==
    /\ pc = "select"
    /\ rendered' = rendered \cup {"Classifier"}
    /\ pc' = "if_SVM"
    /\ UNCHANGED <<disk, caches, widgets, pressed, branch, locals, labelsArg,
                   plotIdx, display, keys, log, error, errorAt, pure>>

BranchPc == [SVM |-> "if_SVM", LR |-> "if_LR", RF |-> "if_RF"]
AfterBranch == [SVM |-> "if_LR", LR |-> "if_RF", RF |-> "checkbox"]

\* if classifier == "<family>" or "Logistic Regression": always true there.
branch_taken_or_lr(family) == classifier = family \/ family = "LR"

\* if classifier == "<family>":
branch_taken(family) == classifier = family

\* The branch body without its "if st.sidebar.button(...)".
button_always == TRUE

\* st.sidebar.button("Classify", key='classify'): true only in the rerun the
\* click triggered.
button == pressed

\* One "if classifier == ..." statement up to its button: the family's
\* widgets, the multiselect and the button are rendered when it is taken.
Branch ==
    \E family \in Families :
       /\ pc = BranchPc[family]
       /\ IF branch_taken(family)
          THEN /\ rendered' = rendered \cup {"hyperparameters", "metrics", "classify"}
               /\ keys' = keys + 1
               /\ IF button
                  THEN pc' = "construct" /\ branch' = family
                  ELSE pc' = AfterBranch[family] /\ UNCHANGED branch
          ELSE /\ pc' = AfterBranch[family]
               /\ UNCHANGED <<rendered, keys, branch>>
       /\ UNCHANGED <<disk, caches, widgets, pressed, locals, labelsArg,
                      plotIdx, display, log, error, errorAt, pure>>

\* The same statements with the accuracy written as soon as it is computed.
ClassifyStepsWriteEarly ==
    <<"construct", "fit", "score", "write_accuracy", "predict", "precision",
      "recall", "plot">>

\* The statements under "if st.sidebar.button(...)", in program order.
ClassifySteps ==
    <<"construct", "fit", "score", "predict", "write_accuracy", "precision",
      "recall", "plot">>

next_step(step) ==
    LET i == CHOOSE j \in 1..Len(ClassifySteps) : ClassifySteps[j] = step
    IN  ClassifySteps[i + 1]

\* The arguments the family's constructor is called with.
constructor_args(family) ==
    LET w == WidgetValues(family)
    IN  IF family = "SVM" THEN [C |-> w.C, kernel |-> w.kernel, gamma |-> w.gamma]
        ELSE IF family = "LR" THEN [C |-> w.C, max_iter |-> w.max_iter]
        ELSE [n_estimators |-> w.n_estimators, max_depth |-> w.max_depth,
              bootstrap |-> PyStr(w.bootstrap), n_jobs |-> -1]

\* Whether a forest built with these arguments draws bootstrap samples: the
\* library tests the truth value of the argument.
BootstrapEnabled(m) == Truthy(m.params.bootstrap)

\* st.subheader("... Results"); model = <Family>(...)
Construct ==
    /\ pc = "construct"
    /\ model' = [family |-> branch, params |-> constructor_args(branch),
                 fitted |-> FALSE, predictions |-> <<>>]
    /\ display' = Append(display, El("subheader", "Results"))
    /\ log' = Append(log, "construct")
    /\ pc' = next_step("construct")
    /\ UNCHANGED <<disk, caches, widgets, pressed, branch, df, parts, accuracy,
                   y_pred, labelsArg, plotIdx, rendered, keys, error, errorAt,
                   pure>>

\* The call raised: the rerun ends here.
Raise(e, at) ==
    /\ error' = e
    /\ errorAt' = at
    /\ display' = on_exception(display)
    /\ pc' = "idle"

\* model.fit(x_train, y_train): fits the model in place or raises.  A fitted
\* model is a fixed function; its answers on x_test are among the labels it
\* has seen.
Fit ==
    /\ pc = "fit"
    /\ log' = Append(log, "fit")
    /\ \/ /\ \E pr \in [1..Len(parts.y_test.values) -> Range(parts.y_train.values)] :
               model' = [model EXCEPT !.fitted = TRUE, !.predictions = pr]
          /\ pc' = next_step("fit")
          /\ UNCHANGED <<display, error, errorAt>>
       \/ /\ Raise("FitError", "fit")
          /\ UNCHANGED model
    /\ UNCHANGED <<disk, caches, widgets, pressed, branch, df, parts, accuracy,
                   y_pred, labelsArg, plotIdx, rendered, keys, pure>>

----------------------------------------------------------------------------
(* A rerun of main(): scoring *)

\* A ratio rounded to 2 decimals, in hundredths.
Round2(num, den) == (200 * num + den) \div (2 * den)

\* model.score(x_test, y_test): the mean accuracy of the model's answers.
score(m, y_true) ==
    Round2(Cardinality({i \in DOMAIN y_true : m.predictions[i] = y_true[i]}), Len(y_true))

\* precision_score(y_true, y_pred, labels=...): with the default binary
\* average the library scores the positive label 1 alone, tp / (tp + fp),
\* 0 when nothing is predicted positive; labels is not consulted.
precision_score(y_true, pred, labels) ==
    LET tp == Cardinality({i \in DOMAIN y_true : pred[i] = 1 /\ y_true[i] = 1})
        pp == Cardinality({i \in DOMAIN y_true : pred[i] = 1})
    IN  IF pp = 0 THEN 0 ELSE Round2(tp, pp)

\* recall_score(y_true, y_pred, labels=...): tp / (tp + fn), likewise.
recall_score(y_true, pred, labels) ==
    LET tp == Cardinality({i \in DOMAIN y_true : pred[i] = 1 /\ y_true[i] = 1})
        ap == Cardinality({i \in DOMAIN y_true : y_true[i] = 1})
    IN  IF ap = 0 THEN 0 ELSE Round2(tp, ap)

\* accuracy = model.score(x_test, y_test)
Score ==
    /\ pc = "score"
    /\ log' = Append(log, "score")
    /\ \/ /\ accuracy' = score(model, parts.y_test.values)
          /\ pc' = next_step("score")
          /\ UNCHANGED <<display, error, errorAt>>
       \/ /\ Raise("ScoreError", "score")
          /\ UNCHANGED accuracy
    /\ UNCHANGED <<disk, caches, widgets, pressed, branch, df, parts, model,
                   y_pred, labelsArg, plotIdx, rendered, keys, pure>>

\* y_pred = model.predict(x_test)
Predict ==
    /\ pc = "predict"
    /\ log' = Append(log, "predict")
    /\ \/ /\ y_pred' = model.predictions
          /\ pc' = next_step("predict")
          /\ UNCHANGED <<display, error, errorAt>>
       \/ /\ Raise("ScoreError", "predict")
          /\ UNCHANGED y_pred
    /\ UNCHANGED <<disk, caches, widgets, pressed, branch, df, parts, model,
                   accuracy, labelsArg, plotIdx, rendered, keys, pure>>

\* st.write("Accuracy: ", accuracy.round(2))
WriteAccuracy ==
    /\ pc = "write_accuracy"
    /\ display' = Append(display, Metric("Accuracy", accuracy))
    /\ log' = Append(log, "write_accuracy")
    /\ pc' = next_step("write_accuracy")
    /\ UNCHANGED <<disk, caches, widgets, pressed, branch, locals, labelsArg,
                   plotIdx, rendered, keys, error, errorAt, pure>>

\* st.write("Precision: ", precision_score(y_test, y_pred, labels=class_names).round(2))
Precision ==
    /\ pc = "precision"
    /\ labelsArg' = {PyStr(class_names[i]) : i \in DOMAIN class_names}
    /\ \/ /\ display' = Append(display,
                 Metric("Precision", precision_score(parts.y_test.values, y_pred, class_names)))
          /\ log' = log \o <<"precision", "write_precision">>
          /\ pc' = next_step("precision")
          /\ UNCHANGED <<error, errorAt>>
       \/ /\ Raise("ScoreError", "precision")
          /\ log' = Append(log, "precision")
    /\ UNCHANGED <<disk, caches, widgets, pressed, branch, locals, plotIdx,
                   rendered, keys, pure>>

\* st.write("Recall: ", recall_score(y_test, y_pred, labels=class_names).round(2))
Recall ==
    /\ pc = "recall"
    /\ labelsArg' = {PyStr(class_names[i]) : i \in DOMAIN class_names}
    /\ \/ /\ display' = Append(display,
                 Metric("Recall", recall_score(parts.y_test.values, y_pred, class_names)))
          /\ log' = log \o <<"recall", "write_recall">>
          /\ pc' = next_step("recall")
          /\ UNCHANGED <<error, errorAt>>
       \/ /\ Raise("ScoreError", "recall")
          /\ log' = Append(log, "recall")
    /\ UNCHANGED <<disk, caches, widgets, pressed, branch, locals, plotIdx,
                   rendered, keys, pure>>

----------------------------------------------------------------------------
(* A rerun of main(): plot_metrics, the checkbox *)

PlotOrder == <<"Confusion Matrix", "ROC Curve", "Precision-Recall Curve">>

\* A plot_metrics that loops over metrics_list.
plot_metrics_as_selected(metrics_list) == metrics_list

\* plot_metrics(metrics_list): the plots its three "if ... in metrics_list"
\* statements render, in program order.
plot_metrics(metrics_list) ==
    SelectSeq(PlotOrder, LAMBDA name : name \in Range(metrics_list))

\* One taken "if" of plot_metrics: the subheader, then the display built
\* from the enclosing model and the test split, which may raise.
PlotNext ==
    /\ pc = "plot"
    /\ plotIdx < Len(plot_metrics(metrics))
    /\ LET name == plot_metrics(metrics)[plotIdx + 1]
           shown == Append(display, El("subheader", name))
       IN  /\ log' = Append(log, "plot")
           /\ \/ /\ display' = Append(shown,
                        [kind |-> "pyplot", label |-> name, model |-> model])
                 /\ plotIdx' = plotIdx + 1
                 /\ UNCHANGED <<pc, error, errorAt>>
              \/ /\ display' = on_exception(shown)
                 /\ error' = "RenderError"
                 /\ errorAt' = "plot"
                 /\ pc' = "idle"
                 /\ UNCHANGED plotIdx
    /\ UNCHANGED <<disk, caches, widgets, pressed, branch, locals, labelsArg,
                   rendered, keys, pure>>

\* plot_metrics returns; main goes on after the branch.
PlotDone ==
    /\ pc = "plot"
    /\ plotIdx = Len(plot_metrics(metrics))
    /\ pc' = AfterBranch[branch]
    /\ UNCHANGED <<disk, caches, widgets, pressed, branch, locals, labelsArg,
                   plotIdx, page, log, error, errorAt, pure>>

\* if st.sidebar.checkbox("Show raw data", False): ...; main returns.
CheckBox ==
    /\ pc = "checkbox"
    /\ rendered' = rendered \cup {"Show raw data"}
    /\ display' = IF showRaw
                  THEN display \o <<El("subheader", "Mushroom Data Set for Classification"),
                                    [kind |-> "write", label |-> "df", value |-> df]>>
                  ELSE display
    /\ pc' = "idle"
    /\ UNCHANGED <<disk, caches, widgets, pressed, branch, locals, labelsArg,
                   plotIdx, keys, log, error, errorAt, pure>>

----------------------------------------------------------------------------

Next ==
    \/ ChooseClassifier \/ ChangeHyperparameter \/ ChangeMetrics
    \/ ToggleShowRaw \/ PressClassify \/ Rerun
    \/ LoadData \/ Split \/ SelectBox \/ Branch \/ Construct \/ Fit \/ Score
    \/ Predict \/ WriteAccuracy \/ Precision \/ Recall \/ PlotNext \/ PlotDone
    \/ CheckBox

Spec == Init /\ [][Next]_vars

----------------------------------------------------------------------------
(* Properties *)

IsPrefix(s, t) == Len(s) <= Len(t) /\ \A i \in 1..Len(s) : s[i] = t[i]

Labels(elements) == [i \in 1..Len(elements) |-> elements[i].label]

\* The plots on the page, and the accuracy/precision/recall lines on the page.
PlotsShown == Labels(SelectSeq(display, LAMBDA e : e.kind = "pyplot"))
MetricsShown ==
    Labels(SelectSeq(display,
        LAMBDA e : e.kind = "write" /\ e.label \in {"Accuracy", "Precision", "Recall"}))

\* The rerun went through main() to its end.
Completed == pc = "idle" /\ error = "None"

Rank(name) ==
    IF name = "Confusion Matrix" THEN 1 ELSE IF name = "ROC Curve" THEN 2 ELSE 3

\* C1: whatever the selection and its order, the plots a Classify action
\* renders are in the order Confusion Matrix, ROC Curve, Precision-Recall
\* Curve, each selected plot at most once and no other; a rerun without
\* Classify renders none, and a completed Classify action renders every
\* selected plot exactly once (one plot for {Confusion Matrix}, none for {}).
PlotsInFixedOrder ==
    /\ \A i, j \in 1..Len(PlotsShown) :
          i < j => Rank(PlotsShown[i]) < Rank(PlotsShown[j])
    /\ Range(PlotsShown) \subseteq Range(metrics)
    /\ ~pressed => PlotsShown = <<>>
    /\ (Completed /\ pressed) =>
          /\ Range(PlotsShown) = Range(metrics)
          /\ Len(PlotsShown) = Cardinality(Range(metrics))

\* A completed Classify action whose selection was made in another order
\* than the fixed one.
PlotsInFixedOrderWitness ==
    /\ Completed /\ pressed
    /\ metrics = <<"Precision-Recall Curve", "Confusion Matrix">>
    /\ PlotsShown = <<"Confusion Matrix", "Precision-Recall Curve">>

\* The calls and writes of a Classify action with k plots, in order.
ClassifyTrace(k) ==
    <<"construct", "fit", "score", "predict", "write_accuracy", "precision",
      "write_precision", "recall", "write_recall">>
    \o SubSeq(<<"plot", "plot", "plot">>, 1, k)

\* C2: in a rerun not triggered by Classify no model is constructed, fit or
\* scored; in a rerun triggered by Classify the steps taken are, each once
\* and in this order, construct, fit, score, display of the metrics, plots
\* (a rerun cut short by an exception has taken a prefix of them), and a
\* rerun that completes has taken them all.
ClassifyOncePerPress ==
    /\ ~pressed => log = <<>> /\ model = None
    /\ IsPrefix(log, ClassifyTrace(Cardinality(Range(metrics))))
    /\ (Completed /\ pressed) => log = ClassifyTrace(Cardinality(Range(metrics)))

\* A completed Classify action with two plots.
ClassifyOncePerPressWitness ==
    /\ Completed /\ pressed
    /\ Len(metrics) = 2
    /\ Len(log) = 11
    /\ model.fitted

\* C3: the bodies of load_data and split complete at most once; a call that
\* returns hands out the cached value; a cached value never changes and the
\* bodies do not run again once a value is cached.
CachePopulatedOnce ==
    /\ [](/\ nRead <= 1 /\ nSplit <= 1
          /\ df # None => loadCache # None /\ df = loadCache.value
          /\ parts # None => splitCache # None /\ parts = splitCache.value)
    /\ [][/\ loadCache # None => loadCache' = loadCache /\ nRead' = nRead
          /\ splitCache # None => splitCache' = splitCache /\ nSplit' = nSplit]_vars

\* A later rerun (one triggered by Classify) whose load_data and split calls
\* have returned.
CachePopulatedOnceWitness ==
    /\ pressed /\ pc = "select"
    /\ nRead = 1 /\ nSplit = 1
    /\ df = load_data(file)

\* C4: on a file without a "type" column every rerun ends in split with the
\* schema error, and before that no classifier control is evaluated, no
\* model is built or fit and no metric or plot is displayed.
NoTypeColumnFailsInSplit ==
    "type" \notin DOMAIN file =>
        /\ pc \in {"load", "split", "idle"}
        /\ pc = "idle" => error = "AttributeError" /\ errorAt = "split"
        /\ rendered = {} /\ keys = 0
        /\ model = None /\ log = <<>>
        /\ MetricsShown = <<>> /\ PlotsShown = <<>>

NoTypeColumnFailsInSplitWitness ==
    /\ "type" \notin DOMAIN file
    /\ pc = "idle" /\ error = "AttributeError"
    /\ nRead = 1 /\ nSplit = 0

\* C5: a Random Forest model draws bootstrap samples exactly when the user
\* chose "True".
BootstrapFollowsChoice ==
    (model # None /\ model.family = "RF") =>
        BootstrapEnabled(model) = (hyper.bootstrap = "True")

\* C6: the labels handed to precision_score and recall_score are the label
\* values of the encoded "type" column.
LabelsAreEncodedClasses ==
    labelsArg # {} => labelsArg = {PyInt(v) : v \in Range(df.type)}

LogCount(op) == Cardinality({i \in 1..Len(log) : log[i] = op})

\* C7: when a plot fails to render, the rerun stops there: accuracy,
\* precision and recall are on the page, so are the plots rendered before
\* the failing one, the exception is shown last, the failing plot was tried
\* once and no later plot was tried.
RenderFailureKeepsMetrics ==
    error = "RenderError" =>
        /\ pc = "idle"
        /\ MetricsShown = <<"Accuracy", "Precision", "Recall">>
        /\ Len(PlotsShown) = plotIdx
        /\ LogCount("plot") = plotIdx + 1
        /\ display[Len(display)].kind = "exception"
        /\ \A i \in 1..(Len(display) - 1) : display[i].kind # "exception"

\* The second of three selected plots failed.
RenderFailureKeepsMetricsWitness ==
    /\ error = "RenderError"
    /\ Len(metrics) = 3
    /\ PlotsShown = <<"Confusion Matrix">>

FitScoreSteps == {"fit", "score", "predict", "precision", "recall"}

\* C8 as claimed: after a failure of fit or of any scoring call, no accuracy,
\* precision, recall or plot is on the page.
FitOrScoreFailureShowsNothing ==
    errorAt \in FitScoreSteps => MetricsShown = <<>> /\ PlotsShown = <<>>

\* C8 as amended: a failure of fit, score or predict leaves no metric and no
\* plot on the page; a failure of precision_score comes after the accuracy
\* line, one of recall_score after the accuracy and precision lines; in each
\* case the rerun ends there, the failing call was made once, the caches are
\* untouched, and every Classify action fits a freshly built, unfit model.
FitOrScoreFailureIsHard ==
    /\ [](/\ errorAt \in {"fit", "score", "predict"} =>
                MetricsShown = <<>> /\ PlotsShown = <<>>
          /\ errorAt = "precision" =>
                MetricsShown = <<"Accuracy">> /\ PlotsShown = <<>>
          /\ errorAt = "recall" =>
                MetricsShown = <<"Accuracy", "Precision">> /\ PlotsShown = <<>>
          /\ errorAt \in FitScoreSteps =>
                /\ pc = "idle"
                /\ error \in {"FitError", "ScoreError"}
                /\ LogCount(errorAt) = 1
                /\ log[Len(log)] = errorAt
          /\ pc \in {"load", "split", "select", "if_SVM", "construct"} => model = None
          /\ pc = "fit" => model # None /\ ~model.fitted)
    /\ [][errorAt' \in FitScoreSteps =>
             loadCache' = loadCache /\ splitCache' = splitCache]_vars

\* precision_score failed after the accuracy line was written.
FitOrScoreFailureIsHardWitness ==
    /\ errorAt = "precision"
    /\ MetricsShown = <<"Accuracy">>
    /\ loadCache # None /\ splitCache # None

\* C9: split(df) on a table of n rows with a "type" column returns exactly
\* when n >= 2, and then: training and test rows are disjoint and cover the
\* rows 1..n once each, the test set has 30% of the rows within rounding,
\* every feature row and label is the one of its row of df, the features
\* have no "type" column, and a repeated call returns the same partition.
SplitPartitions ==
    (pc = "pure_split" /\ calls >= 1) =>
        LET n == NRows(df)
        IN  /\ parts.ok <=> n >= 2
            /\ parts.ok =>
                 LET tr == parts.x_train.index
                     te == parts.x_test.index
                 IN  /\ Range(tr) \cap Range(te) = {}
                     /\ Range(tr) \cup Range(te) = 1..n
                     /\ Len(tr) + Len(te) = n
                     /\ 10 * Len(te) - 3 * n < 10 /\ 3 * n - 10 * Len(te) < 10
                     /\ parts.y_train.index = tr /\ parts.y_test.index = te
                     /\ DOMAIN parts.x_train.columns = DOMAIN df \ {"type"}
                     /\ DOMAIN parts.x_test.columns = DOMAIN df \ {"type"}
                     /\ \A k \in 1..Len(tr) :
                           /\ parts.y_train.values[k] = df.type[tr[k]]
                           /\ \A c \in DOMAIN df \ {"type"} :
                                 parts.x_train.columns[c][k] = df[c][tr[k]]
                     /\ \A k \in 1..Len(te) :
                           /\ parts.y_test.values[k] = df.type[te[k]]
                           /\ \A c \in DOMAIN df \ {"type"} :
                                 parts.x_test.columns[c][k] = df[c][te[k]]
            /\ calls >= 2 => parts = prevParts

\* A second call on a four-row table with both labels, shuffled out of order.
SplitPartitionsWitness ==
    /\ pc = "pure_split" /\ calls = 2
    /\ NRows(df) = 4 /\ parts.ok
    /\ Len(parts.x_test.index) = 2
    /\ Range(df.type) = {0, 1}
    /\ parts.x_test.index # <<1, 2>>

\* C10: the key 'classify' is registered at most once in a rerun and exactly
\* once in a rerun that gets past the branches; the branch that runs is the
\* selected family's; plot_metrics only ever reads a model that was built
\* and fit in this rerun and is of the selected family.
OneBranchAndFittedModel ==
    /\ keys <= 1
    /\ (pc = "checkbox" \/ (Completed /\ "Classifier" \in rendered)) => keys = 1
    /\ branch # "None" => branch = classifier
    /\ pc = "plot" => model # None /\ model.fitted /\ model.family = classifier
    /\ \A i \in 1..Len(display) :
          display[i].kind = "pyplot" =>
              /\ display[i].model = model
              /\ model.fitted /\ model.family = classifier

\* A Random Forest plot, after the selection moved away from the initial SVM.
OneBranchAndFittedModelWitness ==
    /\ pc = "plot" /\ plotIdx = 1
    /\ classifier = "RF" /\ model.family = "RF"

====
